---- MODULE Spec2Model ----
(***************************************************************************)
(* A model of the crypto position ledger and order-settlement engine:      *)
(*   src/agent_tools/tool_trade_crypto.py   buy / sell / _run_order        *)
(*   src/tools/crypto/position_tools.py     get_latest_position, ...       *)
(*   src/tools/crypto/ccxt_client.py        fetch_ticker, get_last_price,  *)
(*                                          execute_order                  *)
(* Quantities (cash, holdings, prices, amounts) are exact integers in      *)
(* units of the smallest lot; dates are day numbers, so that the previous  *)
(* calendar day of d is d - 1.                                             *)
(***************************************************************************)
EXTENDS Integers, Sequences, FiniteSets, TLC

\* ------------------------------------------------------------------ bounds
NumProcs == 2
MaxLedger == 3
MaxDate == 2
MaxAmount == 1
MaxPrice == 2
MaxTime == 1
InitCash == 2

\* The cache time-to-live (ccxt_client.py: _CACHE_TTL, 60 s by default); the
\* clock counts in units of one time-to-live.
CACHE_TTL == 1

Procs == 1 .. NumProcs
Agents == {"a1", "a2"}
Dates == 1 .. MaxDate
Amounts == (-1) .. MaxAmount
Prices == 1 .. MaxPrice
\* Python's None and an unset configuration value, among numbers and names.
None == 0 - 1
Unset == "unset"
Free == None
BASE_SYMBOL == "BTC"
Keys == {"CASH", BASE_SYMBOL}

VARIABLES
  ledger,      \* ledger[a]: the lines of agent a's position.jsonl, in file order
  lock,        \* lock[a]: the process holding a's .position.lock, or Free
  ifTrade,     \* the IF_TRADE value of the runtime configuration
  pc,          \* pc[p]: where process p is inside buy / sell / _run_order
  frame,       \* frame[p]: the locals of p's call
  result,      \* result[p]: what p's last call returned (or that it raised)
  cache,       \* _TICKER_CACHE: the entries {ts, data} of the default pair
  mode,        \* DEFAULT_MODE: "paper" or "live"
  nt,          \* the locals of the add_no_trade_record call in progress, if any
  session,     \* the trading session of the agent: its date and how far it is
  ohlcv        \* _OHLCV_CACHE: for each cache id, its entries {ts, data}

vars ==
  <<ledger, lock, ifTrade, pc, frame, result, cache, mode, nt, session, ohlcv>>

\* The state outside the settlement tools: what buy, sell, _run_order and
\* add_no_trade_record never touch.
outside == <<session, ohlcv>>

\* ------------------------------------------------------------- positions
\* A position is a Python dict from symbol to quantity; {} is the empty dict.
EmptyPos == [k \in {} |-> 0]

Pos(c, h) == [k \in Keys |-> IF k = "CASH" THEN c ELSE h]

\* dict.get(key, default)
Get(d, k, default) == IF k \in DOMAIN d THEN d[k] ELSE default

\* dict.setdefault(key, default) for both symbols
ensure_symbol(position) ==
  [k \in Keys |-> Get(position, k, 0)]

\* ------------------------------------------------------------ the ledger
\* A line of position.jsonl: a JSON record, a blank line, or text that
\* json.loads rejects.
BlankLine == [kind |-> "blank"]
CorruptLine == [kind |-> "corrupt"]

IsRecord(line) == line.kind = "record"

\* The payload _run_order builds (tool_trade_crypto.py, payload = {...}).
TradeRecord(date, id, side, amount, fill_price, positions, order) ==
  [kind |-> "record", date |-> date, id |-> id, action |-> side,
   amount |-> amount, fill_price |-> fill_price, positions |-> positions,
   order |-> order]

\* The no-trade payload with the positions left empty instead of copied.
NoTradeRecordBlank(date, id, positions) ==
  [kind |-> "record", date |-> date, id |-> id, action |-> "no_trade",
   amount |-> 0, positions |-> EmptyPos]

\* The payload add_no_trade_record builds.
NoTradeRecord(date, id, positions) ==
  [kind |-> "record", date |-> date, id |-> id, action |-> "no_trade",
   amount |-> 0, positions |-> positions]

\* get_yesterday_date
get_yesterday_date(date) == date - 1

\* The scan as it would be if the last record of the date in file order
\* won, whatever its id.
RECURSIVE ScanLatestLastWins(_, _, _, _, _)
ScanLatestLastWins(lines, date, i, maxId, positions) ==
  IF i > Len(lines) THEN [positions |-> positions, last_id |-> maxId]
  ELSE IF IsRecord(lines[i]) /\ lines[i].date = date
       THEN ScanLatestLastWins(lines, date, i + 1, lines[i].id, lines[i].positions)
       ELSE ScanLatestLastWins(lines, date, i + 1, maxId, positions)

\* One pass of get_latest_position over the file: the loop body applied
\* to lines[i..], carrying (max id seen, its positions).  The first
\* record with the greatest id wins, since the test is rec_id > max_id.
RECURSIVE ScanLatest(_, _, _, _, _)
ScanLatest(lines, date, i, maxId, positions) ==
  IF i > Len(lines) THEN [positions |-> positions, last_id |-> maxId]
  ELSE IF IsRecord(lines[i]) /\ lines[i].date = date /\ lines[i].id > maxId
       THEN ScanLatest(lines, date, i + 1, lines[i].id, lines[i].positions)
       ELSE ScanLatest(lines, date, i + 1, maxId, positions)

\* json.loads raises on a line that is neither blank nor JSON; both passes
\* read every line of the file.
ReadRaises(lines) == \E i \in 1 .. Len(lines) : lines[i].kind = "corrupt"

\* get_latest_position without the fall-back to the previous day.
get_latest_position_today_only(lines, today_date) ==
  ScanLatest(lines, today_date, 1, -1, EmptyPos)

\* get_latest_position for a file that parses: today's greatest id, else
\* the previous day's, else ({}, -1).
get_latest_position(lines, today_date) ==
  LET today == ScanLatest(lines, today_date, 1, -1, EmptyPos)
  IN  IF today.last_id >= 0 THEN today
      ELSE ScanLatest(lines, get_yesterday_date(today_date), 1, -1, EmptyPos)

\* -------------------------------------------------------- the price cache
DEFAULT_PAIR == "BTC/USDT"

\* A ticker as get_last_price reads it: the fields last, close and
\* info.lastPrice, each a number or None (absent).
Ticker(last, close, lastPrice) ==
  [last |-> last, close |-> close, lastPrice |-> lastPrice]

NoPriceTicker == Ticker(None, None, None)

\* What the upstream exchange answers in the settlement runs.
Quotes == {Ticker(p, None, None) : p \in Prices} \cup {NoPriceTicker}

\* Every ticker the exchange could answer: each of the three fields absent,
\* zero or a price.
AnyTickers ==
  {Ticker(l, c, i) : l \in {None, 0} \cup Prices, c \in {None, 0} \cup Prices,
                     i \in {None, 0} \cup Prices}

\* Python truthiness of a number-or-None.
Truthy(v) == v # None /\ v # 0

\* ticker.get("last") or ticker.get("close") or info.get("lastPrice")
ResolvePrice(ticker) ==
  IF Truthy(ticker.last) THEN ticker.last
  ELSE IF Truthy(ticker.close) THEN ticker.close
  ELSE ticker.lastPrice

\* The readings time.time() can give with cache c: the clock does not run
\* backwards past the time of a cached entry.
Times == 0 .. MaxTime

Clock(c) == {t \in Times : \A e \in c : t >= e.ts}

\* The cache test with <= in place of <.
CacheHitInclusive(c, t) == \E e \in c : t - e.ts <= CACHE_TTL

\* cached and now - cached["ts"] < _CACHE_TTL
CacheHit(c, t) == \E e \in c : t - e.ts < CACHE_TTL

\* fetch_ticker: the outcomes of one call with cache c at time t.  A hit
\* returns the cached data; a miss asks the exchange, which raises or
\* answers, and an answer overwrites the entry.
fetch_ticker_from(c, t, answers) ==
  IF CacheHit(c, t)
  THEN {[raised |-> FALSE, ticker |-> e.data, cache |-> c] : e \in c}
  ELSE {[raised |-> TRUE, ticker |-> NoPriceTicker, cache |-> c]}
       \cup {[raised |-> FALSE, ticker |-> q,
              cache |-> {[ts |-> t, data |-> q]}] : q \in answers}

fetch_ticker(c, t) == fetch_ticker_from(c, t, Quotes)

\* What the upstream exchange answers to fetch_ohlcv: a list of candles,
\* here of their closing prices.
BarSets == {<< >>} \cup {<<q>> : q \in Prices}

\* fetch_ohlcv: the outcomes of one call for cache id k with cache c (a
\* function from cache ids to entries) at time t.  A hit returns the cached
\* bars; a miss asks the exchange, which raises or answers, and an answer
\* overwrites the entry of k.
fetch_ohlcv(c, k, t) ==
  IF CacheHit(c[k], t)
  THEN {[raised |-> FALSE, data |-> e.data, cache |-> c] : e \in c[k]}
  ELSE {[raised |-> TRUE, data |-> << >>, cache |-> c]}
       \cup {[raised |-> FALSE, data |-> b,
              cache |-> [c EXCEPT ![k] = {[ts |-> t, data |-> b]}]] : b \in BarSets}

\* get_last_price with a default of 0 in place of the RuntimeError.
get_last_price_default(c, t) ==
  {[raised |-> o.raised,
    price |-> IF o.raised THEN None
              ELSE IF ResolvePrice(o.ticker) = None THEN 0
              ELSE ResolvePrice(o.ticker),
    cache |-> o.cache] : o \in fetch_ticker(c, t)}

\* get_last_price: raises when fetch_ticker raises or no field gives a
\* price, else returns the resolved price.
last_price_of(o) ==
  [raised |-> o.raised \/ ResolvePrice(o.ticker) = None,
   price |-> IF o.raised THEN None ELSE ResolvePrice(o.ticker),
   cache |-> o.cache]

get_last_price(c, t) == {last_price_of(o) : o \in fetch_ticker(c, t)}

\* ------------------------------------------------------ the initial state
\* The day the agent was registered on: the day before the first trading day.
InitDate == get_yesterday_date(1)

\* The record register_agent leaves in a new position file.
SeedRecord ==
  [kind |-> "record", date |-> InitDate, id |-> 0, action |-> "init",
   amount |-> 0, positions |-> Pos(InitCash, 0)]

\* The position files a run can start from: none, a registered agent's
\* (with a blank line after the record), and one whose last line does not
\* parse.
InitLedgers == {<< >>, <<SeedRecord, BlankLine>>, <<SeedRecord, CorruptLine>>}

NoOrder == [mode |-> "none"]

NoFrame ==
  [side |-> "", amount |-> 0, signature |-> Unset, today_date |-> None,
   positions |-> EmptyPos, last_id |-> None, px |-> None, order |-> NoOrder]

NoResult == [kind |-> "none"]

NoNoTrade ==
  [pc |-> "idle", signature |-> Unset, today_date |-> None,
   positions |-> EmptyPos, max_id |-> None]

\* No session has run: the last date settled is the registration date.
NoSession == [date |-> InitDate, phase |-> "none"]

\* _cache_key(symbol, timeframe, limit): the cache ids of the bars asked
\* for, the default history and a shorter one.
CacheIds == {"BTC/USDT:1d:365", "BTC/USDT:1d:30"}

\* The state after start-up, with the position files given.
Start(ledgers) ==
  /\ ledger \in ledgers
  /\ lock = [a \in Agents |-> Free]
  /\ ifTrade = FALSE
  /\ pc = [p \in Procs |-> "idle"]
  /\ frame = [p \in Procs |-> NoFrame]
  /\ result = [p \in Procs |-> NoResult]
  /\ cache = {}
  /\ mode \in {"paper", "live"}
  /\ nt = NoNoTrade
  /\ session = NoSession
  /\ ohlcv = [k \in CacheIds |-> {}]

\* ---------------------------------------------------------------- _Lock
\* _Lock.__exit__: flock(LOCK_UN) on the lock this process holds.
ReleaseLock(p) == [a \in Agents |-> IF lock[a] = p THEN Free ELSE lock[a]]

\* A return that leaves the lock held: __exit__ without LOCK_UN.
ReturnHoldingLock(p, r) ==
  /\ result' = [result EXCEPT ![p] = r]
  /\ pc' = [pc EXCEPT ![p] = "done"]
  /\ frame' = [frame EXCEPT ![p] = NoFrame]
  /\ UNCHANGED lock

\* A return out of buy / sell / _run_order with value r: the with block
\* exits, the locals are gone.
Return(p, r) ==
  /\ result' = [result EXCEPT ![p] = r]
  /\ lock' = ReleaseLock(p)
  /\ pc' = [pc EXCEPT ![p] = "done"]
  /\ frame' = [frame EXCEPT ![p] = NoFrame]

\* An exception that leaves the lock held: an exit with no LOCK_UN.
RaiseHoldingLock(p, at) ==
  /\ result' = [result EXCEPT ![p] = [kind |-> "exception", at |-> at]]
  /\ pc' = [pc EXCEPT ![p] = "done"]
  /\ frame' = [frame EXCEPT ![p] = NoFrame]
  /\ UNCHANGED lock

\* An exception raised at `at` propagates out of _run_order through
\* _Lock.__exit__.
Raise(p, at) == Return(p, [kind |-> "exception", at |-> at])

\* ------------------------------------------------------------ buy / sell
\* The body of buy / sell with the amount test written amount < 0.
CallAcceptingZero(p, side, amount, signature, today_date) ==
  /\ pc[p] \in {"idle", "done"}
  /\ IF signature = Unset \/ today_date = None
     THEN Return(p, [kind |-> "error", error |-> "SIGNATURE or TODAY_DATE not set"])
     ELSE IF amount < 0
     THEN Return(p, [kind |-> "error", error |-> "amount must be positive"])
     ELSE /\ pc' = [pc EXCEPT ![p] = "wait"]
          /\ frame' = [frame EXCEPT ![p] =
                         [NoFrame EXCEPT !.side = side, !.amount = amount,
                                         !.signature = signature,
                                         !.today_date = today_date]]
          /\ result' = [result EXCEPT ![p] = NoResult]
          /\ UNCHANGED lock
  /\ UNCHANGED <<ledger, ifTrade, cache, mode, nt>>

\* The body shared by buy and sell: the configuration and amount tests,
\* then _run_order(side, amount, signature, today_date).
Call(p, side, amount, signature, today_date) ==
  /\ pc[p] \in {"idle", "done"}
  /\ IF signature = Unset \/ today_date = None
     THEN Return(p, [kind |-> "error", error |-> "SIGNATURE or TODAY_DATE not set"])
     ELSE IF amount <= 0
     THEN Return(p, [kind |-> "error", error |-> "amount must be positive"])
     ELSE /\ pc' = [pc EXCEPT ![p] = "wait"]
          /\ frame' = [frame EXCEPT ![p] =
                         [NoFrame EXCEPT !.side = side, !.amount = amount,
                                         !.signature = signature,
                                         !.today_date = today_date]]
          /\ result' = [result EXCEPT ![p] = NoResult]
          /\ UNCHANGED lock
  /\ UNCHANGED <<ledger, ifTrade, cache, mode, nt>>

buy(p, amount, signature, today_date) ==
  Call(p, "buy", amount, signature, today_date)

sell(p, amount, signature, today_date) ==
  Call(p, "sell", amount, signature, today_date)

\* ------------------------------------------------------------ _run_order
\* Acquire as it would be with no exclusive lock behind the with block.
AcquireUnguarded(p) ==
  /\ pc[p] = "wait"
  /\ lock' = [lock EXCEPT ![frame[p].signature] = p]
  /\ pc' = [pc EXCEPT ![p] = "locked"]
  /\ UNCHANGED <<ledger, ifTrade, frame, result, cache, mode, nt>>

\* Acquire as it would be with one lock file for all agents.
AcquireGlobal(p) ==
  /\ pc[p] = "wait"
  /\ \A a \in Agents : lock[a] = Free
  /\ lock' = [lock EXCEPT ![frame[p].signature] = p]
  /\ pc' = [pc EXCEPT ![p] = "locked"]
  /\ UNCHANGED <<ledger, ifTrade, frame, result, cache, mode, nt>>

\* with _position_lock(signature): flock(LOCK_EX) blocks until the lock
\* file of the agent is free.
Acquire(p) ==
  /\ pc[p] = "wait"
  /\ lock[frame[p].signature] = Free
  /\ lock' = [lock EXCEPT ![frame[p].signature] = p]
  /\ pc' = [pc EXCEPT ![p] = "locked"]
  /\ UNCHANGED <<ledger, ifTrade, frame, result, cache, mode, nt>>

\* _Lock.__init__ cannot create or open the lock file: no lock is taken.
LockOpenFails(p) ==
  /\ pc[p] = "wait"
  /\ Raise(p, "lock")
  /\ UNCHANGED <<ledger, ifTrade, cache, mode, nt>>

\* The read with an empty position seeded with the starting cash instead of
\* {CASH: 0.0, BASE_SYMBOL: 0.0}.
ReadLatestSeedingCash(p) ==
  /\ pc[p] = "locked"
  /\ LET f == frame[p]
         lines == ledger[f.signature]
         got == get_latest_position(lines, f.today_date)
         seeded == IF got.positions = EmptyPos THEN Pos(InitCash, 0)
                   ELSE got.positions
     IN  IF ReadRaises(lines)
         THEN Raise(p, "read")
         ELSE /\ frame' = [frame EXCEPT ![p] =
                             [f EXCEPT !.positions = ensure_symbol(seeded),
                                       !.last_id = got.last_id]]
              /\ pc' = [pc EXCEPT ![p] = "read"]
              /\ UNCHANGED <<lock, result>>
  /\ UNCHANGED <<ledger, ifTrade, cache, mode, nt>>

\* positions, last_id = get_latest_position(today_date, signature), then
\* the seeding of an empty position.
ReadLatest(p) ==
  /\ pc[p] = "locked"
  /\ LET f == frame[p]
         lines == ledger[f.signature]
         got == get_latest_position(lines, f.today_date)
         seeded == IF got.positions = EmptyPos THEN Pos(0, 0) ELSE got.positions
     IN  IF ReadRaises(lines)
         THEN Raise(p, "read")
         ELSE /\ frame' = [frame EXCEPT ![p] =
                             [f EXCEPT !.positions = ensure_symbol(seeded),
                                       !.last_id = got.last_id]]
              /\ pc' = [pc EXCEPT ![p] = "read"]
              /\ UNCHANGED <<lock, result>>
  /\ UNCHANGED <<ledger, ifTrade, cache, mode, nt>>

\* px = get_last_price()
LookupPrice(p) ==
  /\ pc[p] = "read"
  /\ \E t \in Clock(cache) : \E o \in get_last_price(cache, t) :
       /\ cache' = o.cache
       /\ IF o.raised
          THEN Raise(p, "price")
          ELSE /\ frame' = [frame EXCEPT ![p].px = o.price]
               /\ pc' = [pc EXCEPT ![p] = "priced"]
               /\ UNCHANGED <<lock, result>>
  /\ UNCHANGED <<ledger, ifTrade, mode, nt>>

\* The fill record of paper mode (its timestamp, a second reading of
\* time.time(), is left out).
PaperFill(side, amount, px) ==
  [mode |-> "paper", symbol |-> DEFAULT_PAIR, side |-> side,
   amount |-> amount, fill_price |-> px, order_type |-> "market"]

\* What exchange.create_order returns: the venue's order, of which the
\* model keeps the average price the venue filled it at: the lowest or the
\* highest price.
VenuePrices == {1, MaxPrice}

VenueOrders == {[average |-> v] : v \in VenuePrices}

\* The record of live mode around the order the venue returned.
LiveOrder(side, amount, venue) ==
  [mode |-> "live", symbol |-> DEFAULT_PAIR, side |-> side,
   amount |-> amount, order |-> venue]

\* What execute_order does once it has its price lookup o: the lookup
\* raised, or a paper fill is synthesized at the price, or create_order at
\* the live venue raises or returns the venue's order.
Route(o, m, side, amount) ==
  IF o.raised
  THEN {[raised |-> TRUE, at |-> "price", order |-> NoOrder, cache |-> o.cache]}
  ELSE IF m # "live"
  THEN {[raised |-> FALSE, at |-> "", cache |-> o.cache,
         order |-> PaperFill(side, amount, o.price)]}
  ELSE {[raised |-> TRUE, at |-> "order", order |-> NoOrder, cache |-> o.cache]}
       \cup {[raised |-> FALSE, at |-> "", cache |-> o.cache,
              order |-> LiveOrder(side, amount, venue)] : venue \in VenueOrders}

\* execute_order with the explicit price ignored: the price is always
\* looked up.
execute_order_always_quoting(c, t, m, side, amount, price) ==
  UNION {Route(o, m, side, amount) : o \in get_last_price(c, t)}

\* execute_order(side, amount, order_type, price) in trade mode m, with
\* cache c at time t: px is the explicit price, or when that is None the
\* price get_last_price gives.
execute_order(c, t, m, side, amount, price) ==
  LET lookups == IF price = None THEN get_last_price(c, t)
                 ELSE {[raised |-> FALSE, price |-> price, cache |-> c]}
  IN  UNION {Route(o, m, side, amount) : o \in lookups}

\* order = execute_order(side=side, amount=amount, order_type=order_type)
ExecuteOrder(p) ==
  /\ pc[p] = "priced"
  /\ \E t \in Clock(cache) :
     \E o \in execute_order(cache, t, mode, frame[p].side, frame[p].amount, None) :
       /\ cache' = o.cache
       /\ IF o.raised
          THEN Raise(p, o.at)
          ELSE /\ frame' = [frame EXCEPT ![p].order = o.order]
               /\ pc' = [pc EXCEPT ![p] = "ordered"]
               /\ UNCHANGED <<lock, result>>
  /\ UNCHANGED <<ledger, ifTrade, mode, nt>>

\* fill_price = order.get("fill_price", px)
FillPrice(f) ==
  IF "fill_price" \in DOMAIN f.order THEN f.order.fill_price ELSE f.px

\* cost = fill_price * amount (and proceeds, for a sell)
Cost(f) == FillPrice(f) * f.amount

\* The cash test with <= in place of <.
InsufficientCashStrict(f) == Get(f.positions, "CASH", 0) - FillPrice(f) * f.amount <= 0

\* The buy branch with the cash test left out.
InsufficientCashAlwaysPasses(f) == FALSE

\* buy: cash = positions.get("CASH", 0.0) - cost; if cash < 0
InsufficientCash(f) == Get(f.positions, "CASH", 0) - Cost(f) < 0

\* The sell branch with the holdings test left out.
InsufficientHoldingAlwaysPasses(f) == FALSE

\* The holdings test with <= in place of <.
InsufficientHoldingStrict(f) == Get(f.positions, BASE_SYMBOL, 0) <= f.amount

\* sell: holding = positions.get(BASE_SYMBOL, 0.0); if holding < amount
InsufficientHolding(f) == Get(f.positions, BASE_SYMBOL, 0) < f.amount

Rejected(f) ==
  IF f.side = "buy" THEN InsufficientCash(f) ELSE InsufficientHolding(f)

\* The error payloads of the two rejections.
Rejection(f) ==
  IF f.side = "buy"
  THEN [kind |-> "insufficient_cash", required_cash |-> Cost(f),
        cash_available |-> Get(f.positions, "CASH", 0)]
  ELSE [kind |-> "insufficient_holding",
        holding |-> Get(f.positions, BASE_SYMBOL, 0), attempted |-> f.amount]

\* The update with the debit of CASH left out of the buy branch.
NewPositionsNoDebit(f) ==
  IF f.side = "buy"
  THEN [f.positions EXCEPT
          ![BASE_SYMBOL] = Get(f.positions, BASE_SYMBOL, 0) + f.amount]
  ELSE [f.positions EXCEPT
          ![BASE_SYMBOL] = Get(f.positions, BASE_SYMBOL, 0) - f.amount,
          !["CASH"] = Get(f.positions, "CASH", 0) + Cost(f)]

\* The positions after the trade: a buy debits CASH by the cost and
\* credits the symbol by the amount, a sell the reverse.
NewPositions(f) ==
  IF f.side = "buy"
  THEN [f.positions EXCEPT
          !["CASH"] = Get(f.positions, "CASH", 0) - Cost(f),
          ![BASE_SYMBOL] = Get(f.positions, BASE_SYMBOL, 0) + f.amount]
  ELSE [f.positions EXCEPT
          ![BASE_SYMBOL] = Get(f.positions, BASE_SYMBOL, 0) - f.amount,
          !["CASH"] = Get(f.positions, "CASH", 0) + Cost(f)]

\* "id": last_id + 1
NextId(last_id) == last_id + 1

\* payload = {date, id, this_action, positions, order}
Payload(f) ==
  TradeRecord(f.today_date, NextId(f.last_id), f.side, f.amount,
              FillPrice(f), NewPositions(f), f.order)

\* The append with the file opened for writing ("w") instead of appending.
append_record_truncating(signature, payload) ==
  [ledger EXCEPT ![signature] = <<payload>>]

\* _append_record: one more line at the end of the agent's file.
append_record(signature, payload) ==
  [ledger EXCEPT ![signature] = Append(@, payload)]

\* The rejection as it would be with the test placed after the append.
RejectAfterAppend(p) ==
  /\ pc[p] = "ordered"
  /\ Rejected(frame[p])
  /\ ledger' = append_record(frame[p].signature, Payload(frame[p]))
  /\ Return(p, Rejection(frame[p]))
  /\ UNCHANGED <<ifTrade, cache, mode, nt>>

\* The insufficient-cash / insufficient-holdings return inside the with.
Reject(p) ==
  /\ pc[p] = "ordered"
  /\ Rejected(frame[p])
  /\ Return(p, Rejection(frame[p]))
  /\ UNCHANGED <<ledger, ifTrade, cache, mode, nt>>

\* The validated trade: the positions are updated and the payload appended.
Commit(p) ==
  /\ pc[p] = "ordered"
  /\ ~Rejected(frame[p])
  /\ ledger' = append_record(frame[p].signature, Payload(frame[p]))
  /\ frame' = [frame EXCEPT ![p].positions = NewPositions(frame[p])]
  /\ pc' = [pc EXCEPT ![p] = "appended"]
  /\ UNCHANGED <<lock, ifTrade, result, cache, mode, nt>>

\* The append raises (the file cannot be opened or written): nothing is
\* written.
AppendFails(p) ==
  /\ pc[p] = "ordered"
  /\ ~Rejected(frame[p])
  /\ Raise(p, "append")
  /\ UNCHANGED <<ledger, ifTrade, cache, mode, nt>>

\* write_config_value("IF_TRADE", True); return positions
SetTradeFlag(p) ==
  /\ pc[p] = "appended"
  /\ ifTrade' = TRUE
  /\ Return(p, [kind |-> "position", positions |-> frame[p].positions])
  /\ UNCHANGED <<ledger, cache, mode, nt>>

\* --------------------------------------------------- add_no_trade_record
\* positions, max_id = get_latest_position(today_date, signature); no lock
\* is taken.
NoTradeRead(signature, today_date) ==
  /\ nt.pc = "idle"
  /\ LET lines == ledger[signature]
         got == get_latest_position(lines, today_date)
     IN  IF ReadRaises(lines)
         THEN nt' = NoNoTrade
         ELSE nt' = [pc |-> "read", signature |-> signature,
                     today_date |-> today_date, positions |-> got.positions,
                     max_id |-> got.last_id]
  /\ UNCHANGED <<ledger, lock, ifTrade, pc, frame, result, cache, mode>>

\* The payload with id max_id + 1 and the positions read is appended.
NoTradeAppend ==
  /\ nt.pc = "read"
  /\ ledger' = append_record(nt.signature,
                 NoTradeRecord(nt.today_date, NextId(nt.max_id), nt.positions))
  /\ nt' = NoNoTrade
  /\ UNCHANGED <<lock, ifTrade, pc, frame, result, cache, mode>>

\* ---------------------------------------------------- reads of the ledger
\* get_today_init_position: the positions get_latest_position gives for the
\* day before.
get_today_init_position(lines, today_date) ==
  get_latest_position(lines, get_yesterday_date(today_date)).positions

\* A call of get_latest_position(today_date, signature) by p, outside any
\* settlement: it returns (positions, last_id), or json.loads raises.
Latest(p, signature, today_date) ==
  /\ pc[p] = "idle"
  /\ LET lines == ledger[signature]
         got == get_latest_position(lines, today_date)
     IN  result' = [result EXCEPT ![p] =
           IF ReadRaises(lines)
           THEN [kind |-> "exception", at |-> "read"]
           ELSE [kind |-> "latest", signature |-> signature,
                 today_date |-> today_date, positions |-> got.positions,
                 last_id |-> got.last_id]]
  /\ UNCHANGED <<ledger, lock, ifTrade, pc, frame, cache, mode, nt>>

\* A call of get_today_init_position(today_date, signature) by p.
InitialPosition(p, signature, today_date) ==
  /\ pc[p] = "idle"
  /\ LET lines == ledger[signature]
     IN  result' = [result EXCEPT ![p] =
           IF ReadRaises(lines)
           THEN [kind |-> "exception", at |-> "read"]
           ELSE [kind |-> "initial", signature |-> signature,
                 today_date |-> today_date,
                 positions |-> get_today_init_position(lines, today_date)]]
  /\ UNCHANGED <<ledger, lock, ifTrade, pc, frame, cache, mode, nt>>

\* -------------------------------------------------------- specifications
\* A step inside a settlement call that has started.
SettleStep(p) ==
  \/ Acquire(p)
  \/ LockOpenFails(p)
  \/ ReadLatest(p)
  \/ LookupPrice(p)
  \/ ExecuteOrder(p)
  \/ Reject(p)
  \/ Commit(p)
  \/ AppendFails(p)
  \/ SetTradeFlag(p)

\* The ledger of agent a holds fewer than MaxLedger records.
Room(a) == a \in Agents => Len(SelectSeq(ledger[a], IsRecord)) < MaxLedger

\* The inputs of a call: an amount, and the SIGNATURE and TODAY_DATE of the
\* configuration, which name an agent of sigs and a date of dates.  Either
\* configuration value can be unset, and the amount can be zero or negative.
CallInputs(sigs, dates) ==
  (Amounts \X sigs \X dates)
  \cup ({1} \X {Unset} \X (dates \cup {None}))
  \cup ({1} \X sigs \X {None})

\* The start of a settlement call by p.
SettleCall(p, sigs, dates) ==
  \E in \in CallInputs(sigs, dates) :
     /\ Room(in[2])
     /\ \/ buy(p, in[1], in[2], in[3])
        \/ sell(p, in[1], in[2], in[3])

NoTradeCall(sigs, dates) ==
  \E signature \in sigs, today_date \in dates :
     Room(signature) /\ NoTradeRead(signature, today_date)

\* Every agent is registered, and the ledger of a1 is any of InitLedgers.
OneAgent ==
  {[a \in Agents |-> IF a = "a1" THEN l ELSE <<SeedRecord>>] : l \in InitLedgers}

Init == Start(OneAgent)

\* Concurrent settlement calls for one agent and one date, one call in each
\* process.
NextSettle ==
  \/ \E p \in Procs :
       pc[p] = "idle" /\ SettleCall(p, {"a1"}, {1}) /\ UNCHANGED outside
  \/ \E p \in Procs : SettleStep(p) /\ UNCHANGED outside

SpecSettle == Init /\ [][NextSettle]_vars

\* The steps of a call that holds the lock: each returns or raises.
Body(p) ==
  \/ ReadLatest(p)
  \/ LookupPrice(p)
  \/ ExecuteOrder(p)
  \/ Reject(p)
  \/ Commit(p)
  \/ AppendFails(p)
  \/ SetTradeFlag(p)

\* The processes that contend for the lock of agent a1.
Contenders == {1, NumProcs}

\* One settlement call in each of the contending processes.
NextFair ==
  \/ \E p \in Contenders :
       pc[p] = "idle" /\ SettleCall(p, {"a1"}, {1}) /\ UNCHANGED outside
  \/ \E p \in Contenders : SettleStep(p) /\ UNCHANGED outside

\* Concurrent settlement under fair scheduling: a process that can run its
\* next statement eventually runs it, and a process blocked in
\* flock(LOCK_EX) is granted the lock if the lock stays free.
SpecFair ==
  /\ Init
  /\ [][NextFair]_vars
  /\ \A p \in Contenders :
       /\ WF_vars(Acquire(p) /\ UNCHANGED outside)
       /\ WF_vars(Body(p) /\ UNCHANGED outside)

\* One operation at a time, over several days: process 1 starts a
\* settlement call, or the orchestration add_no_trade_record, only when
\* nothing else is in progress.
Quiet == nt.pc = "idle" /\ \A p \in Procs : pc[p] \in {"idle", "done"}

NextSerial ==
  \/ Quiet /\ SettleCall(1, {"a1"}, Dates) /\ UNCHANGED outside
  \/ SettleStep(1) /\ UNCHANGED outside
  \/ Quiet /\ NoTradeCall({"a1"}, Dates) /\ UNCHANGED outside
  \/ NoTradeAppend /\ UNCHANGED outside

SpecSerial == Init /\ [][NextSerial]_vars

\* The core with nothing serialized from outside: settlement calls by
\* process 1, one after another, add_no_trade_record (which takes no lock) and reads of the
\* ledger, all for agent a1 and day 1 and interleaved in any way.
Next ==
  \/ SettleCall(1, {"a1"}, {1}) /\ UNCHANGED outside
  \/ SettleStep(1) /\ UNCHANGED outside
  \/ nt.pc = "idle" /\ NoTradeCall({"a1"}, {1}) /\ UNCHANGED outside
  \/ NoTradeAppend /\ UNCHANGED outside
  \/ Latest(1, "a1", 1) /\ UNCHANGED outside
  \/ InitialPosition(1, "a1", 1) /\ UNCHANGED outside

Spec == Init /\ [][Next]_vars

\* The process that settles for agent a: one process for each agent.
SettlerOf(a) == IF a = "a1" THEN 1 ELSE NumProcs

\* A settlement call for each agent, the two interleaved in any way.
NextAgents ==
  \/ \E a \in Agents :
       /\ pc[SettlerOf(a)] = "idle"
       /\ SettleCall(SettlerOf(a), {a}, {1})
       /\ UNCHANGED outside
  \/ \E a \in Agents : SettleStep(SettlerOf(a)) /\ UNCHANGED outside

SpecAgents == Init /\ [][NextAgents]_vars

\* ------------------------------------------------------- market data
\* A call of fetch_ticker() by p: what it returns, with the reading of
\* time.time() it made.
FetchTicker(p) ==
  /\ pc[p] = "idle"
  /\ \E t \in Clock(cache) : \E o \in fetch_ticker(cache, t) :
       /\ cache' = o.cache
       /\ result' = [result EXCEPT ![p] =
                       [kind |-> "ticker", now |-> t, raised |-> o.raised,
                        data |-> o.ticker]]
  /\ UNCHANGED <<ledger, lock, ifTrade, pc, frame, mode, nt, session, ohlcv>>

\* A call of fetch_ohlcv(symbol, timeframe, limit) by p, the arguments
\* giving cache id k.
FetchOhlcv(p, k) ==
  /\ pc[p] = "idle"
  /\ \E t \in Clock(ohlcv[k]) : \E o \in fetch_ohlcv(ohlcv, k, t) :
       /\ ohlcv' = o.cache
       /\ result' = [result EXCEPT ![p] =
                       [kind |-> "bars", cache_id |-> k, now |-> t,
                        raised |-> o.raised, data |-> o.data]]
  /\ UNCHANGED <<ledger, lock, ifTrade, pc, frame, mode, nt, session, cache>>

\* A call of get_last_price() by p, the exchange answering any ticker.
GetLastPrice(p) ==
  /\ pc[p] = "idle"
  /\ \E t \in Clock(cache) : \E o \in fetch_ticker_from(cache, t, AnyTickers) :
       /\ cache' = o.cache
       /\ result' = [result EXCEPT ![p] =
                       [kind |-> "last_price", now |-> t, fetched |-> ~o.raised,
                        ticker |-> o.ticker,
                        raised |-> last_price_of(o).raised,
                        price |-> last_price_of(o).price]]
  /\ UNCHANGED <<ledger, lock, ifTrade, pc, frame, mode, nt, session, ohlcv>>

\* The prices a caller can pass to execute_order: none, or a number.
ExplicitPrices == {None, 0} \cup Prices

\* A call of execute_order(side, amount, price) by p, outside any
\* settlement: it returns the order record or raises.
ExecuteCall(p, side, amount, price) ==
  /\ pc[p] = "idle"
  /\ \E t \in Clock(cache) :
     \E o \in execute_order(cache, t, mode, side, amount, price) :
       /\ cache' = o.cache
       /\ result' = [result EXCEPT ![p] =
                       [kind |-> "order", side |-> side, amount |-> amount,
                        price |-> price, raised |-> o.raised, at |-> o.at,
                        order |-> o.order]]
  /\ UNCHANGED <<ledger, lock, ifTrade, pc, frame, mode, nt, session, ohlcv>>

\* ------------------------------------------------------ trading sessions
\* get_trading_dates with the position file present: the date of the last
\* record of the file, or init_date when it holds none.
LastRecordDate(lines) ==
  LET records == SelectSeq(lines, IsRecord)
  IN  IF records = << >> THEN InitDate ELSE records[Len(records)].date

\* No tool call of the session's agent is in progress.
ToolsIdle == pc[1] \in {"idle", "done"} /\ nt.pc = "idle"

\* run_trading_session(today_date) begins.  After a session that ended, the
\* date is the next of the list get_trading_dates returned; at start-up,
\* and after a session that raised, the list is computed anew, from the day
\* after the last record of the file (json.loads raises on a file that does
\* not parse).
StartSession ==
  /\ session.phase \in {"none", "ended", "raised"}
  /\ ToolsIdle
  /\ session.phase # "ended" => ~ReadRaises(ledger["a1"])
  /\ LET today_date == IF session.phase = "ended" THEN session.date + 1
                       ELSE LastRecordDate(ledger["a1"]) + 1
     IN  /\ today_date \in Dates
         /\ session' = [date |-> today_date, phase |-> "running"]
  /\ UNCHANGED <<ledger, lock, ifTrade, pc, frame, result, cache, mode, nt, ohlcv>>

\* A tool call of the running session: buy or sell with SIGNATURE and
\* TODAY_DATE those of the session.
SessionCall ==
  /\ session.phase = "running"
  /\ SettleCall(1, {"a1"}, {session.date})
  /\ UNCHANGED outside

\* The step loop raises (except Exception ... raise): the session ends
\* without _handle_trading_result.
SessionRaises ==
  /\ session.phase = "running"
  /\ ToolsIdle
  /\ session' = [session EXCEPT !.phase = "raised"]
  /\ UNCHANGED <<ledger, lock, ifTrade, pc, frame, result, cache, mode, nt, ohlcv>>

\* _handle_trading_result with the reset of IF_TRADE left out.
HandleTradingResultNoReset ==
  /\ session.phase = "running"
  /\ ToolsIdle
  /\ IF ifTrade
     THEN /\ session' = [session EXCEPT !.phase = "ended"]
          /\ UNCHANGED <<ledger, lock, ifTrade, pc, frame, result, cache, mode, nt>>
     ELSE /\ NoTradeRead("a1", session.date)
          /\ session' = [session EXCEPT !.phase =
                           IF ReadRaises(ledger["a1"]) THEN "raised"
                           ELSE "no_trade"]
  /\ UNCHANGED ohlcv

\* _handle_trading_result, entered when the step loop ends: IF_TRADE is
\* reset when set; otherwise add_no_trade_record is called, whose read
\* returns or raises.
HandleTradingResult ==
  /\ session.phase = "running"
  /\ ToolsIdle
  /\ IF ifTrade
     THEN /\ ifTrade' = FALSE
          /\ session' = [session EXCEPT !.phase = "ended"]
          /\ UNCHANGED <<ledger, lock, pc, frame, result, cache, mode, nt>>
     ELSE /\ NoTradeRead("a1", session.date)
          /\ session' = [session EXCEPT !.phase =
                           IF ReadRaises(ledger["a1"]) THEN "raised"
                           ELSE "no_trade"]
  /\ UNCHANGED ohlcv

\* add_no_trade_record appends and _handle_trading_result returns.
HandlerAppend ==
  /\ session.phase = "no_trade"
  /\ NoTradeAppend
  /\ session' = [session EXCEPT !.phase = "ended"]
  /\ UNCHANGED ohlcv

\* The agents whose position file exists when the sessions start.
Registered == {l \in OneAgent : l["a1"] # << >>}

\* The sessions of agent a1, day after day, with the tool calls of each.
NextSession ==
  \/ StartSession
  \/ SessionCall
  \/ SettleStep(1) /\ UNCHANGED outside
  \/ SessionRaises
  \/ HandleTradingResult
  \/ HandlerAppend

SpecSession == Start(Registered) /\ [][NextSession]_vars

\* Calls of fetch_ticker and fetch_ohlcv, one after another, at any times.
NextCache ==
  \/ FetchTicker(1)
  \/ \E k \in CacheIds : FetchOhlcv(1, k)

SpecCache == Init /\ [][NextCache]_vars

\* Calls of execute_order, one after another, with and without a price.
NextGateway ==
  \E side \in {"buy", "sell"}, amount \in 1 .. MaxAmount,
     price \in ExplicitPrices :
    ExecuteCall(1, side, amount, price)

SpecGateway == Init /\ [][NextGateway]_vars

\* Calls of get_last_price alone, on every ticker.
NextQuote == GetLastPrice(1)

SpecQuote == Init /\ [][NextQuote]_vars

\* The position files get_latest_position can be given: up to
\* MaxLedger - 1 lines in any order, each a blank line, a line that does not
\* parse, or a record of any date with any id and one of two positions.
ScanLines ==
  {NoTradeRecord(d, i, pos) :
     d \in {InitDate} \cup Dates, i \in 0 .. (MaxLedger - 1),
     pos \in {Pos(InitCash, 0), Pos(0, 1)}}
  \cup {BlankLine, CorruptLine}

ScanFiles ==
  UNION {[1 .. n -> ScanLines] : n \in 0 .. (MaxLedger - 1)}

AnyFile ==
  {[a \in Agents |-> IF a = "a1" THEN l ELSE <<SeedRecord>>] : l \in ScanFiles}

\* Reads of one position file, whatever it holds.
NextLatest ==
  \/ \E d \in Dates : Latest(1, "a1", d) /\ UNCHANGED outside
  \/ \E d \in Dates : InitialPosition(1, "a1", d) /\ UNCHANGED outside

SpecLatest == Start(AnyFile) /\ [][NextLatest]_vars

\* ================================================================ claims
\* Where a settlement call is between taking the lock and leaving the with
\* block.
Critical == {"locked", "read", "priced", "ordered", "appended"}

InCritical(p) == pc[p] \in Critical

\* The records of a ledger that settlements appended.
IsTrade(line) == IsRecord(line) /\ line.action \in {"buy", "sell"}

\* The lines of a file before line i.
Before(lines, i) == SubSeq(lines, 1, i - 1)

\* The greatest id among the records of date d, or -1.
MaxIdOn(lines, d) ==
  LET ids == {lines[i].id : i \in {j \in 1 .. Len(lines) :
                                     IsRecord(lines[j]) /\ lines[j].date = d}}
  IN  IF ids = {} THEN 0 - 1 ELSE CHOOSE m \in ids : \A n \in ids : n <= m

\* The positions latest(agent, date) gives for a file, as a settlement
\* starts from them: those of the last record of the date, else of the last
\* record of the day before, else no cash and no holding.
PositionAt(lines, d) ==
  LET on(day) == {j \in 1 .. Len(lines) :
                    IsRecord(lines[j]) /\ lines[j].date = day}
      last(S) == CHOOSE m \in S : \A n \in S : n <= m
      day == IF on(d) # {} THEN d ELSE d - 1
  IN  IF on(day) = {} \/ lines[last(on(day))].positions = EmptyPos
      THEN Pos(0, 0)
      ELSE lines[last(on(day))].positions

\* ---- C1 ----------------------------------------------------------------
\* C1: under concurrent settlement calls for one agent, at most one call at
\* a time is between reading the latest (position, last_id) and appending
\* its record; no two records appended by settlements share (date, id); and
\* no committed update is lost: every settlement's record starts from the
\* positions of the record committed before it.
C1_MutualExclusion ==
  \A p, q \in Procs :
    (p # q /\ InCritical(p) /\ InCritical(q))
      => frame[p].signature # frame[q].signature

C1_UniqueIds ==
  \A a \in Agents : \A i, j \in 1 .. Len(ledger[a]) :
    (i < j /\ IsTrade(ledger[a][i]) /\ IsTrade(ledger[a][j])
       /\ ledger[a][i].date = ledger[a][j].date)
      => ledger[a][i].id # ledger[a][j].id

C1_NoLostUpdate ==
  \A a \in Agents : \A i \in 1 .. Len(ledger[a]) :
    LET r == ledger[a][i]
        prev == PositionAt(Before(ledger[a], i), r.date)
        delta == r.fill_price * r.amount
    IN  IsTrade(r) =>
          IF r.action = "buy"
          THEN r.positions = Pos(prev["CASH"] - delta, prev[BASE_SYMBOL] + r.amount)
          ELSE r.positions = Pos(prev["CASH"] + delta, prev[BASE_SYMBOL] - r.amount)

\* C1: the three together: settlements of one agent are serialized from
\* the read of (position, last_id) to the append, their records have
\* distinct (date, id), and no committed update is lost.
C1_SettlementsSerialized ==
  C1_MutualExclusion /\ C1_UniqueIds /\ C1_NoLostUpdate

\* A second call waits for the lock while the first has appended its record.
C1_Witness ==
  \E p, q \in Procs :
    /\ pc[p] = "appended" /\ pc[q] = "wait"
    /\ frame[p].signature = frame[q].signature

\* ---- C2 ----------------------------------------------------------------
\* The trade records of a ledger.
Trades(lines) == SelectSeq(lines, IsTrade)

\* The processes whose call returned a result of kind k.
Returned(k) == {p \in Procs : pc[p] = "done" /\ result[p].kind = k}

\* Every process has made its call for agent a, each a buy that reached
\* the cash test at cost c (the commits are in the ledger at that cost,
\* the rejections report it), from a registered ledger whose cash covers c
\* once and not twice.
C2_Scenario(a, c) ==
  /\ Len(ledger[a]) >= 1 /\ ledger[a][1] = SeedRecord
  /\ c <= InitCash /\ InitCash < 2 * c
  /\ \A p \in Procs :
       /\ pc[p] = "done"
       /\ result[p].kind \in {"position", "insufficient_cash"}
       /\ result[p].kind = "insufficient_cash" => result[p].required_cash = c
  /\ \A i \in 1 .. Len(ledger[a]) :
       IsTrade(ledger[a][i]) =>
         /\ ledger[a][i].action = "buy"
         /\ ledger[a][i].fill_price * ledger[a][i].amount = c

\* C2: when N concurrent buys of one agent and date, at the same cost, run
\* on cash that covers exactly one of them, exactly one returns the new
\* position, the other N - 1 return the insufficient-cash error, and the
\* ledger gains exactly one record.
C2_ExactlyOneBuyWins ==
  \A c \in 1 .. (MaxPrice * MaxAmount) :
    C2_Scenario("a1", c) =>
      /\ Cardinality(Returned("position")) = 1
      /\ Cardinality(Returned("insufficient_cash")) = NumProcs - 1
      /\ Len(Trades(ledger["a1"])) = 1
      /\ \A p \in Returned("position") :
           result[p].positions = Pos(InitCash - c, Trades(ledger["a1"])[1].amount)

C2_Witness ==
  /\ \E c \in 1 .. (MaxPrice * MaxAmount) : C2_Scenario("a1", c)
  /\ Cardinality(Returned("position")) = 1
  /\ \E p \in Returned("insufficient_cash") :
       result[p].cash_available < result[p].required_cash

\* ---- C3 ----------------------------------------------------------------
\* The ids of the records of date d, in file order.
RECURSIVE IdsOn(_, _)
IdsOn(lines, d) ==
  IF lines = << >> THEN << >>
  ELSE IF IsRecord(Head(lines)) /\ Head(lines).date = d
       THEN <<Head(lines).id>> \o IdsOn(Tail(lines), d)
       ELSE IdsOn(Tail(lines), d)

\* Each id is one more than the id before it.
Consecutive(ids) == \A k \in 2 .. Len(ids) : ids[k] = ids[k - 1] + 1

AllDates == {InitDate} \cup Dates

\* C3 as claimed: for every agent and date, after any sequence of settle and
\* record_no_trade operations, the ids of the records of that date, in
\* append order, increase by one and start at 0.
C3_IdsStartAtZero ==
  \A a \in Agents : \A d \in AllDates :
    LET ids == IdsOn(ledger[a], d)
    IN  ids # << >> => (ids[1] = 0 /\ Consecutive(ids))

\* C3 as amended: the ids of a date increase by one, and the first record of
\* a date has id 0 only if the ledger held no record of the preceding
\* calendar day when it was appended; otherwise it continues from the
\* greatest id of the preceding day.
C3_IdsContinue ==
  \A a \in Agents :
    /\ \A d \in AllDates : Consecutive(IdsOn(ledger[a], d))
    /\ \A i \in 1 .. Len(ledger[a]) :
         LET r == ledger[a][i]
             pre == Before(ledger[a], i)
         IN  (IsRecord(r) /\ MaxIdOn(pre, r.date) < 0)
               => r.id = MaxIdOn(pre, r.date - 1) + 1

\* The registration record, then two records of day 1 with ids 1 and 2.
C3_Witness ==
  /\ IdsOn(ledger["a1"], InitDate) = <<0>>
  /\ IdsOn(ledger["a1"], 1) = <<1, 2>>
  /\ \E i \in 1 .. Len(ledger["a1"]) :
       IsRecord(ledger["a1"][i]) /\ ledger["a1"][i].action = "no_trade"

\* ---- C4 ----------------------------------------------------------------
\* The step of p that appends its record.
CommitStep(p) == pc[p] = "ordered" /\ pc'[p] = "appended"

\* The step of p that leaves the validation, by commit, rejection or a
\* failed append.
ValidationStep(p) == pc[p] = "ordered" /\ pc'[p] # "ordered"

Last(lines) == lines[Len(lines)]

\* C4: every committed settlement conserves notional value at its own fill
\* price: with (CASH, H) the latest position before and (CASH', H') the
\* position recorded, CASH' + H' * fill_price = CASH + H * fill_price, a buy
\* moving fill_price * amount from CASH to the symbol and a sell moving it
\* back, and no other key of the position appearing or changing.
C4_Conservation ==
  [][\A p \in Procs :
       CommitStep(p) =>
         LET a == frame[p].signature
             old == PositionAt(ledger[a], frame[p].today_date)
             r == Last(ledger'[a])
             moved == r.fill_price * r.amount
         IN  /\ Len(ledger'[a]) = Len(ledger[a]) + 1
             /\ DOMAIN r.positions = Keys
             /\ r.positions["CASH"] + r.positions[BASE_SYMBOL] * r.fill_price
                  = old["CASH"] + old[BASE_SYMBOL] * r.fill_price
             /\ r.action = "buy" =>
                  /\ r.positions["CASH"] = old["CASH"] - moved
                  /\ r.positions[BASE_SYMBOL] = old[BASE_SYMBOL] + r.amount
             /\ r.action = "sell" =>
                  /\ r.positions["CASH"] = old["CASH"] + moved
                  /\ r.positions[BASE_SYMBOL] = old[BASE_SYMBOL] - r.amount
    ]_vars

\* A sell has been appended (after the buy that gave it something to sell).
C4_Witness ==
  \E p \in Procs :
    /\ pc[p] = "appended" /\ frame[p].side = "sell"
    /\ Len(Trades(ledger[frame[p].signature])) = 2

\* ---- C5 ----------------------------------------------------------------
\* The fill price a call validates against: the paper fill's, or in live
\* mode the price looked up before the order.
ValidationPrice(f) ==
  IF f.order.mode = "paper" THEN f.order.fill_price ELSE f.px

\* C5: a buy that reaches validation commits if and only if
\* fill_price * amount <= CASH (unless the append itself raises): on commit
\* the recorded position has CASH reduced by the cost and the symbol
\* increased by the amount; otherwise the call returns the insufficient-cash
\* error with the required and the available cash, and appends nothing.
C5_BuyRule ==
  [][\A p \in Procs :
       (ValidationStep(p) /\ frame[p].side = "buy") =>
         LET f == frame[p]
             a == f.signature
             old == PositionAt(ledger[a], f.today_date)
             cost == ValidationPrice(f) * f.amount
         IN  IF cost <= old["CASH"]
             THEN \/ /\ pc'[p] = "appended"
                     /\ ledger'[a] = Append(ledger[a], Last(ledger'[a]))
                     /\ Last(ledger'[a]).positions =
                          Pos(old["CASH"] - cost, old[BASE_SYMBOL] + f.amount)
                  \/ /\ result'[p] = [kind |-> "exception", at |-> "append"]
                     /\ ledger' = ledger
             ELSE /\ pc'[p] = "done"
                  /\ result'[p] = [kind |-> "insufficient_cash",
                                   required_cash |-> cost,
                                   cash_available |-> old["CASH"]]
                  /\ ledger' = ledger
    ]_vars

\* A buy whose cost was exactly the cash available has been appended.
C5_Witness ==
  \E p \in Procs :
    /\ pc[p] = "appended" /\ frame[p].side = "buy"
    /\ frame[p].positions["CASH"] = 0

\* ---- C6 ----------------------------------------------------------------
\* C6: a sell that reaches validation commits if and only if
\* amount <= holding (unless the append itself raises): on commit the
\* recorded position has the symbol reduced by the amount and CASH increased
\* by fill_price * amount; otherwise the call returns the
\* insufficient-holdings error with the held and the attempted quantities,
\* and appends nothing.
C6_SellRule ==
  [][\A p \in Procs :
       (ValidationStep(p) /\ frame[p].side = "sell") =>
         LET f == frame[p]
             a == f.signature
             old == PositionAt(ledger[a], f.today_date)
             proceeds == ValidationPrice(f) * f.amount
         IN  IF f.amount <= old[BASE_SYMBOL]
             THEN \/ /\ pc'[p] = "appended"
                     /\ ledger'[a] = Append(ledger[a], Last(ledger'[a]))
                     /\ Last(ledger'[a]).positions =
                          Pos(old["CASH"] + proceeds, old[BASE_SYMBOL] - f.amount)
                  \/ /\ result'[p] = [kind |-> "exception", at |-> "append"]
                     /\ ledger' = ledger
             ELSE /\ pc'[p] = "done"
                  /\ result'[p] = [kind |-> "insufficient_holding",
                                   holding |-> old[BASE_SYMBOL],
                                   attempted |-> f.amount]
                  /\ ledger' = ledger
    ]_vars

\* A sell of the entire holding has been appended.
C6_Witness ==
  \E p \in Procs :
    /\ pc[p] = "appended" /\ frame[p].side = "sell"
    /\ frame[p].positions[BASE_SYMBOL] = 0

\* ---- C7 ----------------------------------------------------------------
\* The step in which p's call returns a rejection.
RejectionStep(p) ==
  /\ pc[p] # "done" /\ pc'[p] = "done"
  /\ result'[p].kind \in {"insufficient_cash", "insufficient_holding"}

\* C7: a settlement rejected for insufficient cash or holdings leaves the
\* ledger as it was (no record appended; latest(agent, date) is the position
\* and last_id the call read) and does not set the trade-occurred flag.
C7_RejectionLeavesLedger ==
  [][\A p \in Procs :
       RejectionStep(p) =>
         LET f == frame[p]
             after == get_latest_position(ledger'[f.signature], f.today_date)
         IN  /\ ledger' = ledger
             /\ ifTrade' = ifTrade
             /\ after.last_id = f.last_id
             /\ PositionAt(ledger'[f.signature], f.today_date) = f.positions
    ]_vars

\* A sell has been rejected and the flag is not set.
C7_Witness ==
  \E p \in Procs :
    /\ pc[p] = "done" /\ result[p].kind = "insufficient_holding"
    /\ ~ifTrade

\* ---- C8 ----------------------------------------------------------------
\* The step in which p's call returns one of the two structured errors of
\* buy / sell.
ErrorStep(p) ==
  pc[p] # "done" /\ pc'[p] = "done" /\ result'[p].kind = "error"

\* C8: buy and sell with amount <= 0, or with the agent identifier or the
\* trading date unset, return a structured error straight away: such a call
\* never enters _run_order, and the returning step takes no lock and leaves
\* the ledger, the price cache and the trade-occurred flag as they were.
C8_InvalidCallsTouchNothing ==
  [][\A p \in Procs :
       /\ pc'[p] \notin {"idle", "done"} =>
            /\ frame'[p].amount > 0
            /\ frame'[p].signature \in Agents
            /\ frame'[p].today_date \in Dates
       /\ ErrorStep(p) =>
            /\ pc[p] = "idle"
            /\ lock' = lock
            /\ ledger' = ledger
            /\ cache' = cache
            /\ ifTrade' = ifTrade
    ]_vars

\* A call with a non-positive amount has returned its error while another
\* process holds the agent's lock.
C8_Witness ==
  \E p, q \in Procs :
    /\ pc[p] = "done"
    /\ result[p] = [kind |-> "error", error |-> "amount must be positive"]
    /\ lock["a1"] = q

\* ---- C9 ----------------------------------------------------------------
\* C9: whenever a settle call that took the agent lock has finished, by
\* commit, rejection or an exception, it no longer holds the lock: a lock
\* is held only by a call inside its with block, for that call's agent, so
\* a waiting call finds the lock free once no call is inside.
C9_LockReleasedOnExit ==
  /\ \A a \in Agents :
       lock[a] # Free =>
         /\ lock[a] \in Procs
         /\ InCritical(lock[a])
         /\ frame[lock[a]].signature = a
  /\ \A p \in Procs :
       (pc[p] = "wait"
          /\ \A q \in Procs :
               InCritical(q) => frame[q].signature # frame[p].signature)
         => lock[frame[p].signature] = Free

\* A call failed in the append, and a later call of the agent holds the
\* lock.
C9_Witness ==
  \E p, q \in Procs :
    /\ pc[p] = "done"
    /\ result[p] = [kind |-> "exception", at |-> "append"]
    /\ InCritical(q) /\ lock["a1"] = q

\* ---- C10 ---------------------------------------------------------------
\* The cache holds a ticker none of whose fields gives a price.
PricelessCached(c) == \E e \in c : ResolvePrice(e.data) = None

\* C10: if the price lookup of a settle fails, the call fails with that
\* error and the ledger and the trade-occurred flag are unchanged; no
\* default price is used: a call that goes on holds the price of the ticker
\* just read, and every recorded fill price is a quoted price.
C10_PriceFailureAborts ==
  [][\A p \in Procs :
       /\ (pc[p] \in {"read", "priced"} /\ pc'[p] # pc[p]
             /\ PricelessCached(cache')) =>
            /\ pc'[p] = "done"
            /\ result'[p] = [kind |-> "exception", at |-> "price"]
       /\ (pc'[p] = "done" /\ pc[p] # "done"
             /\ result'[p] = [kind |-> "exception", at |-> "price"]) =>
            /\ ledger' = ledger
            /\ ifTrade' = ifTrade
       /\ (pc[p] = "read" /\ pc'[p] = "priced") =>
            \E e \in cache' : frame'[p].px = ResolvePrice(e.data)
       /\ pc'[p] \in {"priced", "ordered", "appended"} =>
            frame'[p].px \in Prices
       /\ \A i \in 1 .. Len(ledger'["a1"]) :
            IsTrade(ledger'["a1"][i]) => ledger'["a1"][i].fill_price \in Prices
    ]_vars

\* A call on a registered ledger failed on a ticker without a price.
C10_Witness ==
  \E p \in Procs :
    /\ pc[p] = "done"
    /\ result[p] = [kind |-> "exception", at |-> "price"]
    /\ PricelessCached(cache)
    /\ ledger["a1"] = <<SeedRecord, BlankLine>>

\* ---- C11 ---------------------------------------------------------------
\* The lines of a file that are records of date d.
RecordsOn(lines, d) ==
  {i \in 1 .. Len(lines) : IsRecord(lines[i]) /\ lines[i].date = d}

\* (positions, last_id) is the record of date d with the greatest id.
IsLatestOn(lines, d, positions, last_id) ==
  /\ last_id = MaxIdOn(lines, d)
  /\ \E i \in RecordsOn(lines, d) :
       lines[i].id = last_id /\ lines[i].positions = positions

\* C11: whenever get_latest_position returns, it returns the positions and
\* id of the record with the greatest id among the records of the date
\* asked for, in whatever order the file holds them; if the file has no
\* record of that date, those of the greatest id of the day before; and if
\* it has no record of either date, the empty position and -1, even when
\* it holds records of earlier dates.
C11_LatestSelectsMaxId ==
  \A p \in Procs :
    result[p].kind = "latest" =>
      LET r == result[p]
          lines == ledger[r.signature]
          d == r.today_date
      IN  IF RecordsOn(lines, d) # {}
          THEN IsLatestOn(lines, d, r.positions, r.last_id)
          ELSE IF RecordsOn(lines, d - 1) # {}
          THEN IsLatestOn(lines, d - 1, r.positions, r.last_id)
          ELSE r.positions = EmptyPos /\ r.last_id = 0 - 1

\* The file holds two records of the date asked for, the greater id first,
\* and the call returned the first.
C11_Witness ==
  /\ result[1].kind = "latest"
  /\ LET lines == ledger["a1"]
     IN  /\ Len(lines) = 2
         /\ RecordsOn(lines, result[1].today_date) = {1, 2}
         /\ lines[1].id > lines[2].id
         /\ lines[1].positions # lines[2].positions
         /\ result[1].last_id = lines[1].id
         /\ result[1].positions = lines[1].positions

\* ---- C12 ---------------------------------------------------------------
\* The step in which add_no_trade_record appends its record.
NoTradeAppendStep == nt.pc = "read" /\ nt'.pc = "idle"

\* The last line of a file is a no_trade record of date d.
EndsWithNoTrade(lines, d) ==
  /\ Len(lines) > 0
  /\ IsRecord(Last(lines))
  /\ Last(lines).action = "no_trade"
  /\ Last(lines).date = d

\* C12: a call of add_no_trade_record, with no other operation in between,
\* appends exactly one record with action no_trade that carries the
\* positions of get_latest_position before the call and leaves them the
\* latest positions of the date; so when it follows another such call for
\* the same agent and date, the file ends with two no_trade records, both
\* with the positions that were the latest before the first call.
C12_NoTradeTwice ==
  [][NoTradeAppendStep =>
       LET a == nt.signature
           d == nt.today_date
           lines == ledger[a]
           r == Last(ledger'[a])
           snapshot == get_latest_position(lines, d).positions
       IN  /\ ledger'[a] = Append(lines, r)
           /\ r.action = "no_trade" /\ r.date = d
           /\ r.positions = snapshot
           /\ get_latest_position(ledger'[a], d).positions = snapshot
           /\ EndsWithNoTrade(lines, d) =>
                /\ r.positions = Last(lines).positions
                /\ r.id = Last(lines).id + 1
                /\ r.positions =
                     get_latest_position(Before(lines, Len(lines)), d).positions
    ]_vars

\* Two calls in a row for day 1 on a registered ledger: the file ends with
\* two no_trade records of day 1 carrying the registered position.
C12_Witness ==
  LET lines == ledger["a1"]
      n == Len(lines)
  IN  /\ nt.pc = "idle"
      /\ n >= 3
      /\ EndsWithNoTrade(lines, 1)
      /\ EndsWithNoTrade(Before(lines, n), 1)
      /\ lines[n].positions = Pos(InitCash, 0)
      /\ lines[n - 1].positions = Pos(InitCash, 0)

\* ---- C13 ---------------------------------------------------------------
\* File new is file old, or file old with one more line at its end.
GrowsByAtMostOne(old, new) ==
  \/ new = old
  \/ /\ Len(new) = Len(old) + 1
     /\ SubSeq(new, 1, Len(old)) = old
     /\ IsRecord(Last(new))

\* The step in which a call of p returns without having appended, or a
\* read of the ledger returns.
NoAppendReturn(p) ==
  /\ result'[p] # result[p]
  /\ result'[p].kind \in {"error", "insufficient_cash", "insufficient_holding",
                          "exception", "latest", "initial"}

\* C13: the ledger is append-only.  Every step of every operation (a
\* settlement that commits, is rejected or fails, add_no_trade_record,
\* get_latest_position, get_today_init_position) leaves the lines already
\* in each agent's file as they were and in the same order, and adds at
\* most one record at the end; rejections, failures and reads add none.
C13_AppendOnly ==
  [][/\ \A a \in Agents : GrowsByAtMostOne(ledger[a], ledger'[a])
     /\ \A p \in Procs : NoAppendReturn(p) => ledger' = ledger
    ]_vars

\* The registered file has grown by a no_trade record, and the sell after it
\* was rejected and added nothing.
C13_Witness ==
  LET lines == ledger["a1"]
  IN  /\ Len(lines) = 3
      /\ SubSeq(lines, 1, 2) = <<SeedRecord, BlankLine>>
      /\ lines[3].action = "no_trade"
      /\ pc[1] = "done"
      /\ result[1].kind = "insufficient_holding"

\* ---- C14 ---------------------------------------------------------------
\* A buy of p is at validation with a cost the starting cash covers.
AffordableBuy(p) ==
  /\ ValidationStep(p)
  /\ frame[p].side = "buy"
  /\ ValidationPrice(frame[p]) * frame[p].amount <= InitCash

\* The step of p appends a buy record with the given id that leaves the
\* starting cash less the cost, or the append itself raises.
BuyCommits(p, id) ==
  LET f == frame[p]
      a == f.signature
      cost == ValidationPrice(f) * f.amount
  IN  \/ /\ pc'[p] = "appended"
         /\ ledger'[a] = Append(ledger[a], Last(ledger'[a]))
         /\ Last(ledger'[a]).positions = Pos(InitCash - cost, f.amount)
         /\ Last(ledger'[a]).id = id
      \/ /\ result'[p] = [kind |-> "exception", at |-> "append"]
         /\ ledger' = ledger

\* C14 as claimed: for a fresh agent with no ledger file, a buy whose cost
\* the starting cash covers succeeds: the position recorded is the starting
\* cash less the cost with the amount bought, and the record has id 0.
C14_FreshBuySucceeds ==
  [][\A p \in Procs :
       (AffordableBuy(p) /\ ledger[frame[p].signature] = << >>)
         => BuyCommits(p, 0)
    ]_vars

\* C14 as amended: with no ledger file the position is seeded with no cash,
\* so every buy is rejected for insufficient cash, with nothing available,
\* and appends nothing; the starting cash is in the record registration
\* leaves in the file, with id 0 and the date of the day before, and a
\* first buy it covers succeeds with id 1.
C14_FreshBuyRejected ==
  [][\A p \in Procs :
       AffordableBuy(p) =>
         LET f == frame[p]
             a == f.signature
         IN  /\ ledger[a] = << >> =>
                  /\ pc'[p] = "done"
                  /\ result'[p] =
                       [kind |-> "insufficient_cash",
                        required_cash |-> ValidationPrice(f) * f.amount,
                        cash_available |-> 0]
                  /\ ledger' = ledger
             /\ ledger[a] = <<SeedRecord, BlankLine>> => BuyCommits(p, 1)
    ]_vars

\* A buy costing half the starting cash was rejected with no ledger file.
C14_Witness ==
  \E p \in Procs :
    /\ ledger["a1"] = << >>
    /\ pc[p] = "done"
    /\ result[p].kind = "insufficient_cash"
    /\ 2 * result[p].required_cash <= InitCash
    /\ result[p].cash_available = 0

\* ---- C15 ---------------------------------------------------------------
\* The agent a step of p's call works for.
AgentOf(p) ==
  IF pc[p] \in {"idle", "done"} THEN frame'[p].signature ELSE frame[p].signature

\* No other call is inside its with block for the agent p's call is for.
AloneOnAgent(p) ==
  \A q \in Procs \ {p} :
    InCritical(q) => frame[q].signature # frame[p].signature

\* C15: the settlement lock is scoped to the agent.  A call waiting for the
\* lock can take it whenever no other call for the same agent is inside its
\* with block, whatever calls for other agents are doing; a step of a call
\* changes no other agent's ledger or lock; and what the call reads is the
\* latest position and id of its own agent's ledger.
C15_AgentScopedLock ==
  [][\A p \in Procs :
       /\ (pc[p] = "wait" /\ AloneOnAgent(p)) => ENABLED Acquire(p)
       /\ pc'[p] # pc[p] =>
            \A b \in Agents \ {AgentOf(p)} :
              ledger'[b] = ledger[b] /\ lock'[b] = lock[b]
       /\ (pc[p] = "locked" /\ pc'[p] = "read") =>
            LET f == frame[p]
                own == ledger[f.signature]
            IN  /\ frame'[p].positions = PositionAt(own, f.today_date)
                /\ frame'[p].last_id =
                     get_latest_position(own, f.today_date).last_id
    ]_vars

\* A call for a2 has taken its lock and read its ledger while a call for a1
\* holds a1's lock and has appended.
C15_Witness ==
  \E p, q \in Procs :
    /\ pc[p] = "appended" /\ frame[p].signature = "a1" /\ lock["a1"] = p
    /\ pc[q] = "read" /\ frame[q].signature = "a2" /\ lock["a2"] = q

\* ---- C16 ---------------------------------------------------------------
\* No two records of one date in a file share an id.
DistinctIds(lines) ==
  \A i, j \in 1 .. Len(lines) :
    (i < j /\ IsRecord(lines[i]) /\ IsRecord(lines[j])
       /\ lines[i].date = lines[j].date)
      => lines[i].id # lines[j].id

\* C16 as claimed: under any interleaving of add_no_trade_record with a
\* settlement for the same agent and date, no two records of the date get
\* the same id, and the record add_no_trade_record appends carries the
\* latest positions of the ledger at the moment it is appended.
C16_IdsUnderLock ==
  [][/\ \A a \in Agents : DistinctIds(ledger'[a])
     /\ NoTradeAppendStep =>
          Last(ledger'[nt.signature]).positions =
            get_latest_position(ledger[nt.signature], nt.today_date).positions
    ]_vars

\* ---- C17 ---------------------------------------------------------------
\* The step in which _handle_trading_result returns.
HandlerReturns == session.phase # "ended" /\ session'.phase = "ended"

\* The step writes True to IF_TRADE as the last step of a settlement whose
\* record is the last of its agent's file.
SetBySettlement ==
  \E p \in Procs :
    /\ pc[p] = "appended" /\ pc'[p] = "done"
    /\ result'[p].kind = "position"
    /\ LET lines == ledger[frame[p].signature]
       IN  /\ IsTrade(Last(lines))
           /\ Last(lines).date = frame[p].today_date
           /\ Last(lines).positions = result'[p].positions
    /\ ledger' = ledger

\* C17: IF_TRADE becomes true only in the step of a settlement that follows
\* the append of its record, and false only in _handle_trading_result,
\* which resets it when it finds it true; IF_TRADE is false whenever
\* _handle_trading_result returns, and stays false until the next session
\* trades.
C17_FlagSetAfterAppend ==
  [][/\ (ifTrade' /\ ~ifTrade) => SetBySettlement
     /\ (ifTrade /\ ~ifTrade') => (session.phase = "running" /\ HandlerReturns)
     /\ HandlerReturns => ~ifTrade'
     /\ session'.phase = "ended" => ~ifTrade'
    ]_vars

\* The session of day 1 traded, and its handler has reset the flag.
C17_Witness ==
  /\ session = [date |-> 1, phase |-> "ended"]
  /\ ~ifTrade
  /\ IsTrade(Last(ledger["a1"]))
  /\ Last(ledger["a1"]).date = 1

\* ---- C18 ---------------------------------------------------------------
\* C18 as claimed: whenever _handle_trading_result for date D has returned,
\* the agent's ledger holds at least one record dated D, whatever sessions
\* came before, those that raised after a committed trade included.
C18_DailyRecord ==
  session.phase = "ended" => RecordsOn(ledger["a1"], session.date) # {}

\* ---- C19 ---------------------------------------------------------------
\* The entries of e that are younger than the time-to-live at time now.
Fresh(e, now) == {x \in e : now - x.ts < CACHE_TTL}

\* A call that read the clock at r.now and returned r (or raised) took
\* entries old to entries new as the time-to-live prescribes.
GovernedByTTL(r, old, new) ==
  IF Fresh(old, r.now) # {}
  THEN /\ ~r.raised
       /\ r.data \in {x.data : x \in Fresh(old, r.now)}
       /\ new = old
  ELSE IF r.raised
  THEN new = old
  ELSE new = {[ts |-> r.now, data |-> r.data]}

\* C19: fetch_ticker and fetch_ohlcv return the cached payload only when
\* now - ts < TTL, and then leave the caches as they were; otherwise they
\* fetch, and either the fetch fails, the call fails and the caches are as
\* they were (the stale payload is not returned), or the entry of the key
\* asked for, and no other, becomes {ts: now, data} with the payload
\* returned.
C19_StalenessByTTL ==
  [][\A p \in Procs :
       LET r == result'[p]
       IN  /\ (r.kind = "ticker" /\ r # result[p]) =>
                /\ GovernedByTTL(r, cache, cache')
                /\ ohlcv' = ohlcv
           /\ (r.kind = "bars" /\ r # result[p]) =>
                /\ GovernedByTTL(r, ohlcv[r.cache_id], ohlcv'[r.cache_id])
                /\ \A k \in CacheIds \ {r.cache_id} : ohlcv'[k] = ohlcv[k]
                /\ cache' = cache
           /\ (r = result[p] /\ r.kind \in {"ticker", "bars"}) =>
                (cache' = cache /\ ohlcv' = ohlcv)
    ]_vars

\* A call for bars found its entry one time-to-live old, the fetch failed,
\* and the stale entry is still in the cache, beside a newer entry of the
\* other cache id.
C19_Witness ==
  /\ result[1].kind = "bars"
  /\ result[1].raised
  /\ \E x \in ohlcv[result[1].cache_id] :
       /\ result[1].now - x.ts = CACHE_TTL
       /\ x.data # << >>
  /\ \E k \in CacheIds \ {result[1].cache_id} :
       \E y \in ohlcv[k] : y.ts = result[1].now

\* ---- C20 ---------------------------------------------------------------
\* C20: in paper mode execute_order submits nothing to the venue: it either
\* fails in the price lookup or returns a fill record with mode paper,
\* whose side, amount, symbol and order type are those of the call and
\* whose fill price is the explicit price when one is given (then there is
\* no lookup: the call cannot fail and the price cache is as it was) and
\* the price of the ticker just read otherwise; the record is determined by
\* the arguments and the price.
C20_PaperFill ==
  [][\A p \in Procs :
       LET r == result'[p]
       IN  (r.kind = "order" /\ r # result[p] /\ mode # "live") =>
             /\ r.raised => (r.at = "price" /\ r.price = None)
             /\ ~r.raised =>
                  /\ r.order.mode = "paper"
                  /\ DOMAIN r.order = {"mode", "symbol", "side", "amount",
                                       "fill_price", "order_type"}
                  /\ r.order = PaperFill(r.side, r.amount, r.order.fill_price)
                  /\ IF r.price # None
                     THEN r.order.fill_price = r.price
                     ELSE \E e \in cache' :
                            r.order.fill_price = ResolvePrice(e.data)
             /\ r.price # None => cache' = cache
    ]_vars

\* A paper fill at an explicit price that is not the price in the cache.
C20_Witness ==
  /\ mode = "paper"
  /\ result[1].kind = "order"
  /\ ~result[1].raised
  /\ result[1].price \in Prices
  /\ result[1].order.fill_price = result[1].price
  /\ \E e \in cache :
       ResolvePrice(e.data) \in Prices /\ ResolvePrice(e.data) # result[1].price


\* ---- C21 ---------------------------------------------------------------
\* The price the venue reported for the live order p's call submitted.
VenueReported(f) == f.order.order.average

\* C21: in live mode the record a settlement commits carries the price the
\* venue reported for its order: this_action.fill_price is that price and
\* the CASH of the recorded position differs from the CASH read by that price
\* times the amount.
C21_VenuePriceRecorded ==
  [][\A p \in Procs :
       (CommitStep(p) /\ frame[p].order.mode = "live") =>
         LET f == frame[p]
             r == Last(ledger'[f.signature])
             paid == VenueReported(f) * f.amount
         IN  /\ r.fill_price = VenueReported(f)
             /\ r.positions["CASH"] =
                  IF f.side = "buy" THEN Get(f.positions, "CASH", 0) - paid
                  ELSE Get(f.positions, "CASH", 0) + paid
    ]_vars


\* ---- C22 ---------------------------------------------------------------
\* A field of the ticker is present.
Present(v) == v # None

\* The first present field of last, close, info.lastPrice (None when none is).
FirstPresent(ticker) ==
  IF Present(ticker.last) THEN ticker.last
  ELSE IF Present(ticker.close) THEN ticker.close
  ELSE ticker.lastPrice

\* C22: a call of get_last_price whose ticker was fetched returns the first
\* present field among last, close and info.lastPrice, whatever its value
\* (0 included), and raises exactly when none of the three is present.
C22_FirstPresentField ==
  (result[1].kind = "last_price" /\ result[1].fetched) =>
    /\ result[1].raised <=> FirstPresent(result[1].ticker) = None
    /\ ~result[1].raised => result[1].price = FirstPresent(result[1].ticker)


\* ---- C23 ---------------------------------------------------------------
\* C23: a read of the position file returns whatever the file holds: a line
\* that does not parse is skipped, so no call of get_latest_position or
\* get_today_init_position ends in an exception, and get_latest_position
\* returns the greatest-id record of the date among the lines that parse.
C23_CorruptLineSkipped ==
  \A p \in Procs :
    /\ result[p].kind # "exception"
    /\ (result[p].kind = "latest"
          /\ RecordsOn(ledger[result[p].signature], result[p].today_date) # {})
         => IsLatestOn(ledger[result[p].signature], result[p].today_date,
                       result[p].positions, result[p].last_id)


\* ---- C24 ---------------------------------------------------------------
\* p's call has sent an order to the venue (exchange.create_order returned).
OrderSubmitted(p) == frame[p].order.mode = "live"

\* C24: no call that has sent an order to the venue ends in the
\* insufficient-cash or the insufficient-holdings rejection: an order that
\* was submitted is followed by the append of its record.
C24_NoOrderBeforeRejection ==
  [][\A p \in Procs : RejectionStep(p) => ~OrderSubmitted(p)]_vars


\* ---- C25 ---------------------------------------------------------------
\* Every quantity of a position snapshot is non-negative.
NonNegative(positions) == \A k \in DOMAIN positions : positions[k] >= 0

\* C25: every record of every position file carries a snapshot with
\* CASH >= 0 and holding >= 0: from an empty or a registered file, no
\* sequence of buy, sell and add_no_trade_record calls commits an overdraft
\* or a short position.
C25_NoOverdraftNoShort ==
  \A a \in Agents : \A i \in 1 .. Len(ledger[a]) :
    IsRecord(ledger[a][i]) => NonNegative(ledger[a][i].positions)

\* A buy that spent all the cash and the sell of all that was bought are
\* both on file.
C25_Witness ==
  LET lines == ledger["a1"]
  IN  /\ \E i \in 1 .. Len(lines) :
           /\ IsRecord(lines[i]) /\ lines[i].action = "buy"
           /\ lines[i].positions["CASH"] = 0
      /\ \E i \in 1 .. Len(lines) :
           /\ IsRecord(lines[i]) /\ lines[i].action = "sell"
           /\ lines[i].positions[BASE_SYMBOL] = 0


\* ---- C26 ---------------------------------------------------------------
\* p's call is in _run_order: blocked on the lock or inside the with block.
Started(p) == pc[p] = "wait" \/ InCritical(p)

\* p's call has ended, by commit, rejection or an exception, and p holds no
\* lock.
Ended(p) == pc[p] = "done" /\ \A a \in Agents : lock[a] # p

\* C26: settlement does not deadlock: under fair scheduling a call waiting
\* for the agent's lock eventually leaves the wait (it acquires the lock,
\* unless the lock file cannot be opened), and every call that has started
\* eventually ends, by commit, rejection or an exception, holding no lock.
C26_NoDeadlock ==
  \A p \in Procs :
    /\ (pc[p] = "wait") ~> (pc[p] = "locked" \/ Ended(p))
    /\ Started(p) ~> Ended(p)

\* A call is blocked on the lock of its agent while another call, which has
\* sent its order, holds it.
C26_Witness ==
  \E p, q \in Procs :
    /\ pc[p] = "wait" /\ pc[q] = "ordered"
    /\ lock[frame[p].signature] = q

====
